---------------------------- MODULE Spec2Model ----------------------------
(***************************************************************************)
(* Model of src/s1.py: a scraper that fetches a rendered page, locates its *)
(* main content (extract_main_content), sanitizes it (clean_html),         *)
(* converts it to Markdown (convert_to_markdown_with_details), sequenced   *)
(* by scrape_robustly, and a module-level script that saves the result.    *)
(*                                                                         *)
(* A Python str holding HTML is a sequence of tokens (start tag, end tag,  *)
(* text); a Python str holding Markdown or a message is a sequence of      *)
(* pieces.  Insignificant whitespace (pretty-printing, blank-line runs) is *)
(* not represented.  The library calls made by the source are modelled by  *)
(* what they do to such strings: BeautifulSoup's html.parser tree builder, *)
(* lxml's html.fromstring / Cleaner / html.tostring, and markdownify's     *)
(* MarkdownConverter.                                                      *)
(***************************************************************************)
EXTENDS Integers, Sequences, FiniteSets, TLC

VARIABLES
    pc,                 \* position of the script / scrape_robustly
    html_with_js,       \* scrape_robustly local (line 101)
    main_content_html,  \* scrape_robustly local (line 107)
    cleaned_html,       \* scrape_robustly local (line 113)
    markdown_content,   \* scrape_robustly local (line 117)
    scraped_data,       \* module global (line 123)
    calls,              \* the stage functions invoked so far, in order
    file,               \* content of robust_scraped_content.md, or NoFile
    callee,             \* stage function under direct call
    arg,                \* its argument
    ret,                \* its outcome
    first               \* outcome of the previous call in a chain

vars == << pc, html_with_js, main_content_html, cleaned_html, markdown_content,
           scraped_data, calls, file, callee, arg, ret, first >>

runVars == << pc, html_with_js, main_content_html, cleaned_html,
              markdown_content, scraped_data, calls, file >>

callVars == << callee, arg, ret, first >>

(***************************************************************************)
(* Bounds of the model.                                                    *)
(***************************************************************************)
MaxPageLen == 3

MaxDocLen == 3

MaxFragLen == 3

MaxHtmlLen == 3

(***************************************************************************)
(* Python values: None and str.                                            *)
(***************************************************************************)
None == [isNone |-> TRUE, s |-> << >>]

Str(s) == [isNone |-> FALSE, s |-> s]

\* Python truthiness of an Optional[str]: None and "" are falsy.
Truthy(v) == ~v.isNone /\ v.s # << >>

(***************************************************************************)
(* HTML tokens.                                                            *)
(***************************************************************************)
Open(t, c, i) == [k |-> "open", tag |-> t, cls |-> c, id |-> i]

Close(t) == [k |-> "close", tag |-> t, cls |-> "", id |-> ""]

Text(t) == [k |-> "text", tag |-> t, cls |-> "", id |-> ""]

\* A whitespace-only text node.
Blank == Text(" ")

SeqsUpTo(S, n) == UNION { [1..m -> S] : m \in 0..n }

RECURSIVE ClosesFor(_)
\* End tags for the open elements of a stack, innermost first.
ClosesFor(stack) ==
    IF stack = << >> THEN << >>
    ELSE << Close(stack[Len(stack)]) >> \o ClosesFor(SubSeq(stack, 1, Len(stack) - 1))

\* Position in the stack of the innermost open element named t, 0 if none.
LastOpen(stack, t) ==
    IF \E i \in 1..Len(stack) : stack[i] = t
    THEN CHOOSE i \in 1..Len(stack) :
            /\ stack[i] = t
            /\ \A j \in (i+1)..Len(stack) : stack[j] # t
    ELSE 0

(***************************************************************************)
(* BeautifulSoup(html, 'html.parser'): the tree, written as the balanced   *)
(* token sequence of its serialization.  A start tag opens an element, an  *)
(* end tag closes up to the innermost open element of that name and is     *)
(* ignored when none is open, and the end of input closes what is open.    *)
(***************************************************************************)
RECURSIVE BsBuild(_, _, _)
BsBuild(out, stack, rest) ==
    IF rest = << >> THEN out \o ClosesFor(stack)
    ELSE LET tok == Head(rest) IN
         CASE tok.k = "open" ->
                BsBuild(Append(out, tok), Append(stack, tok.tag), Tail(rest))
           [] tok.k = "text" ->
                BsBuild(Append(out, tok), stack, Tail(rest))
           [] OTHER ->
                LET i == LastOpen(stack, tok.tag) IN
                IF i = 0 THEN BsBuild(out, stack, Tail(rest))
                ELSE BsBuild(out \o ClosesFor(SubSeq(stack, i, Len(stack))),
                             SubSeq(stack, 1, i - 1), Tail(rest))

BeautifulSoup(html) == BsBuild(<< >>, << >>, html)

RECURSIVE MatchClose(_, _, _)
\* Position of the end tag of the element whose start tag precedes position j,
\* d elements being open at j.
MatchClose(tree, j, d) ==
    IF tree[j].k = "open" THEN MatchClose(tree, j + 1, d + 1)
    ELSE IF tree[j].k = "close"
         THEN IF d = 1 THEN j ELSE MatchClose(tree, j + 1, d - 1)
         ELSE MatchClose(tree, j + 1, d)

\* str(tag): the serialization of the element whose start tag is at position i.
Subtree(tree, i) == SubSeq(tree, i, MatchClose(tree, i + 1, 1))

(***************************************************************************)
(* extract_main_content (lines 25-52).                                     *)
(***************************************************************************)
main_selectors_reordered ==
    << [by |-> "class", name |-> "main"],
       [by |-> "id", name |-> "main"],
       [by |-> "class", name |-> "content"],
       [by |-> "id", name |-> "content"],
       [by |-> "tag", name |-> "main"],
       [by |-> "tag", name |-> "article"] >>

main_selectors ==
    << [by |-> "tag", name |-> "main"],
       [by |-> "tag", name |-> "article"],
       [by |-> "class", name |-> "main"],
       [by |-> "id", name |-> "main"],
       [by |-> "class", name |-> "content"],
       [by |-> "id", name |-> "content"] >>

\* Whether a CSS selector of main_selectors matches an element's start tag.
Matches(tok, sel) ==
    /\ tok.k = "open"
    /\ CASE sel.by = "tag" -> tok.tag = sel.name
         [] sel.by = "class" -> tok.cls = sel.name
         [] OTHER -> tok.id = sel.name

\* soup.select_one(selector): the first match in document order, 0 for None.
select_one(soup, sel) ==
    IF \E i \in 1..Len(soup) : Matches(soup[i], sel)
    THEN CHOOSE i \in 1..Len(soup) :
            /\ Matches(soup[i], sel)
            /\ \A j \in 1..(i-1) : ~Matches(soup[j], sel)
    ELSE 0

\* soup.find('body'): the first body element in document order, 0 for None.
find_body(soup) == select_one(soup, [by |-> "tag", name |-> "body"])

RECURSIVE SelectorLoop(_, _)
\* The for loop of lines 43-46 from selector k on: main_div when it ends.
SelectorLoop(soup, k) ==
    IF k > Len(main_selectors) THEN 0
    ELSE LET main_div == select_one(soup, main_selectors[k]) IN
         IF main_div # 0 THEN main_div ELSE SelectorLoop(soup, k + 1)

\* main_div at line 52: the located element's position in the tree, 0 for None.
LocateNoFallback(soup) == SelectorLoop(soup, 1)

Locate(soup) ==
    LET main_div == SelectorLoop(soup, 1) IN
    IF main_div = 0 THEN find_body(soup) ELSE main_div

extract_main_content(html_content) ==
    LET soup == BeautifulSoup(html_content.s)
        main_div == Locate(soup)
    IN  IF main_div # 0 THEN Str(Subtree(soup, main_div)) ELSE None


(***************************************************************************)
(* Outcome of a call: a returned value or a raised exception, and whether  *)
(* the stage's parser or converter was invoked.                            *)
(***************************************************************************)
Returned(v, inv) == [raised |-> "", value |-> v, invoked |-> inv]

Raised(e) == [raised |-> e, value |-> None, invoked |-> TRUE]

NoOutcome == [raised |-> "", value |-> None, invoked |-> FALSE]

(***************************************************************************)
(* lxml.html.fromstring (line 70).  libxml2's HTML parser puts content in  *)
(* an implied body, wraps text found directly in the body in an implied p, *)
(* lets the start tag of a block element end an open p, and drops an end   *)
(* tag that matches no open element or would close one of higher priority. *)
(***************************************************************************)
BlockTags == {"p", "div", "h1", "h2", "h3", "h4", "h5", "h6"}

\* lxml.html.defs.tags, restricted to the tags of the model.
KnownTags == BlockTags \cup {"b", "span", "a", "article", "body"}

\* libxml2 htmlEndPriority.
EndPriority(t) == IF t = "div" THEN 150 ELSE IF t = "body" THEN 200 ELSE 100

\* libxml2 htmlCheckAutoClose: whether the start tag t ends the open element top.
AutoCloses(t, top) == t \in BlockTags /\ top = "p"

RECURSIVE LxmlBuild(_, _, _)
LxmlBuild(out, stack, rest) ==
    IF rest = << >> THEN out \o ClosesFor(stack)
    ELSE LET tok == Head(rest)
             n == Len(stack)
         IN
         CASE tok = Blank /\ n = 0 ->
                LxmlBuild(out, stack, Tail(rest))
           [] tok # Blank /\ tok.k = "text" /\ n = 0 ->
                LxmlBuild(out \o << Open("p", "", ""), tok >>, << "p" >>, Tail(rest))
           [] tok.k = "text" /\ n > 0 ->
                LxmlBuild(Append(out, tok), stack, Tail(rest))
           [] tok.k = "open" /\ tok.tag = "body" ->
                LxmlBuild(out, stack, Tail(rest))
           [] tok.k = "open" /\ tok.tag # "body" ->
                IF n > 0 /\ AutoCloses(tok.tag, stack[n])
                THEN LxmlBuild(Append(out, Close(stack[n])), SubSeq(stack, 1, n - 1), rest)
                ELSE LxmlBuild(Append(out, tok), Append(stack, tok.tag), Tail(rest))
           [] tok.k = "close" /\ tok.tag = "body" ->
                LxmlBuild(out \o ClosesFor(stack), << >>, Tail(rest))
           [] OTHER ->
                LET i == LastOpen(stack, tok.tag) IN
                IF \/ i = 0
                   \/ \E j \in (i+1)..n : EndPriority(stack[j]) > EndPriority(tok.tag)
                THEN LxmlBuild(out, stack, Tail(rest))
                ELSE LxmlBuild(out \o ClosesFor(SubSeq(stack, i, n)),
                               SubSeq(stack, 1, i - 1), Tail(rest))

\* The parser builds no element: no start tag and nothing but blank text.
DocumentIsEmpty(html) ==
    \A i \in 1..Len(html) : html[i].k = "close" \/ html[i] = Blank

\* The attributes of the body start tag, kept on the element fromstring
\* makes of the body.
BodyTag(html, t) ==
    IF \E i \in 1..Len(html) : html[i].k = "open" /\ html[i].tag = "body"
    THEN LET i == select_one(html, [by |-> "tag", name |-> "body"])
         IN  Open(t, html[i].cls, html[i].id)
    ELSE Open(t, "", "")

\* fromstring's choice of root: the body's only child, or the body itself
\* renamed div (block-level content) or span.
fromstring(html) ==
    LET body == LxmlBuild(<< >>, << >>, html) IN
    IF body # << >> /\ MatchClose(body, 2, 1) = Len(body)
    THEN body
    ELSE IF \E i \in 1..Len(body) : body[i].k = "open" /\ body[i].tag \in BlockTags
         THEN << BodyTag(html, "div") >> \o body \o << Close("div") >>
         ELSE << BodyTag(html, "span") >> \o body \o << Close("span") >>

(***************************************************************************)
(* lxml.html.clean.Cleaner(style=True, links=True, add_nofollow=True,      *)
(* page_structure=False, safe_attrs_only=False) (lines 61-67, 71).  With   *)
(* the defaults left in force (scripts, comments, remove_unknown_tags) it  *)
(* deletes script, style and link elements with their content and unwraps  *)
(* elements whose tag is not a known HTML tag; a root it cannot unwrap is  *)
(* renamed div and loses its attributes.  class and id are kept.           *)
(***************************************************************************)
KillTags == {"script", "style", "link"}

RECURSIVE DropInner(_)
\* kill_tags and unknown tags applied to a forest below the root.
DropInner(forest) ==
    IF forest = << >> THEN << >>
    ELSE LET tok == Head(forest) IN
         IF tok.k # "open" THEN << tok >> \o DropInner(Tail(forest))
         ELSE LET m == MatchClose(forest, 2, 1)
                  inner == SubSeq(forest, 2, m - 1)
                  after == SubSeq(forest, m + 1, Len(forest))
              IN  CASE tok.tag \in KillTags -> DropInner(after)
                    [] tok.tag \notin KnownTags -> DropInner(inner) \o DropInner(after)
                    [] OTHER -> << tok >> \o DropInner(inner)
                                  \o << forest[m] >> \o DropInner(after)

Cleaner(tree) ==
    LET root == tree[1]
        inner == DropInner(SubSeq(tree, 2, Len(tree) - 1))
    IN  CASE root.tag \in KillTags -> << Open("div", "", ""), Close("div") >>
          [] root.tag \notin KnownTags ->
                << Open("div", "", "") >> \o inner \o << Close("div") >>
          [] OTHER -> << root >> \o inner \o << tree[Len(tree)] >>

\* html.tostring(tree, pretty_print=True, encoding='unicode') (line 72).
tostring(tree) == tree

(***************************************************************************)
(* clean_html (lines 54-72).                                               *)
(***************************************************************************)
clean_html_unguarded(html_string) ==
    IF html_string.isNone THEN Raised("TypeError")
    ELSE IF DocumentIsEmpty(html_string.s) THEN Raised("ParserError")
    ELSE Returned(Str(tostring(Cleaner(fromstring(html_string.s)))), TRUE)

clean_html(html_string) ==
    IF ~Truthy(html_string) THEN Returned(Str(<< >>), FALSE)
    ELSE IF DocumentIsEmpty(html_string.s) THEN Raised("ParserError")
    ELSE Returned(Str(tostring(Cleaner(fromstring(html_string.s)))), TRUE)


(***************************************************************************)
(* markdownify.MarkdownConverter (lines 83-91).  The constructor stores    *)
(* its keyword arguments over the library's default options; the options   *)
(* the conversion reads are the library's own.  markdownify defines no     *)
(* option named substitutions, so that entry is stored and never read.     *)
(***************************************************************************)
DefaultOptions == [heading_style |-> "underlined", escape_underscores |-> TRUE]

\* self.options after the constructor call of lines 83-89.
Options ==
    [heading_style |-> DefaultOptions.heading_style,
     escape_underscores |-> FALSE,
     substitutions |-> << << "h1", "##" >>, << "h2", "###" >>, << "h3", "####" >>,
                          << "h4", "#####" >>, << "h5", "######" >>,
                          << "h6", "#######" >> >>]

\* Markdown pieces: a run of n '#', a line break, a paragraph break.
Hashes(n) == << "#", "##", "###", "####", "#####", "######", "#######" >>[n]

BR == "\n"

NL == "\n\n"

HeadingTags == << "h1", "h2", "h3", "h4", "h5", "h6" >>

IsHeading(t) == \E n \in 1..6 : HeadingTags[n] = t

Level(t) == CHOOSE n \in 1..6 : HeadingTags[n] = t

\* MarkdownConverter.convert_hn.
convert_hn(n, text, convert_as_inline) ==
    IF convert_as_inline THEN text
    ELSE IF Options.heading_style = "underlined" /\ n <= 2
         THEN << NL >> \o text \o << BR, IF n = 1 THEN "===" ELSE "---", NL >>
         ELSE << NL, Hashes(n), " " >> \o text \o << NL >>

\* MarkdownConverter.convert_<tag>, for the tags of the model; a tag without
\* a conversion passes its text through.
convert_tag(t, text, convert_as_inline) ==
    CASE IsHeading(t) -> convert_hn(Level(t), text, convert_as_inline)
      [] t \in {"p", "div"} ->
            IF convert_as_inline THEN text ELSE << NL >> \o text \o << NL >>
      [] t = "b" -> IF text = << >> THEN << >> ELSE << "**" >> \o text \o << "**" >>
      [] OTHER -> text

RECURSIVE process_tag(_, _)
\* MarkdownConverter.process_tag over a forest; the children of a heading
\* are converted inline.
process_tag(forest, convert_as_inline) ==
    IF forest = << >> THEN << >>
    ELSE LET tok == Head(forest) IN
         IF tok.k # "open"
         THEN (IF tok = Blank THEN << >> ELSE << tok.tag >>)
              \o process_tag(Tail(forest), convert_as_inline)
         ELSE LET m == MatchClose(forest, 2, 1)
                  text == process_tag(SubSeq(forest, 2, m - 1),
                                      convert_as_inline \/ IsHeading(tok.tag))
              IN  convert_tag(tok.tag, text, convert_as_inline)
                    \o process_tag(SubSeq(forest, m + 1, Len(forest)), convert_as_inline)

RECURSIVE StripBreaks(_)
\* The document's surrounding breaks are stripped and a run of paragraph
\* breaks is one break.
StripBreaks(md) ==
    IF md = << >> THEN << >>
    ELSE IF md[1] = NL THEN StripBreaks(Tail(md))
    ELSE IF Len(md) >= 2 /\ md[2] = NL
         THEN LET more == StripBreaks(Tail(md)) IN
              IF more = << >> THEN << md[1] >> ELSE << md[1], NL >> \o more
         ELSE << md[1] >> \o StripBreaks(Tail(md))

\* md_converter.convert(html_string) (line 91).
convert(html) == StripBreaks(process_tag(BeautifulSoup(html), FALSE))

(***************************************************************************)
(* convert_to_markdown_with_details (lines 74-93).                         *)
(***************************************************************************)
convert_to_markdown_with_details(html_string) ==
    IF ~Truthy(html_string) THEN Returned(Str(<< >>), FALSE)
    ELSE Returned(Str(convert(html_string.s)), TRUE)


(***************************************************************************)
(* scrape_robustly (lines 95-119) and the script around it (lines 122-131).*)
(***************************************************************************)
MsgFetch == "Failed to fetch content."

MsgLocate == "Could not identify main content."

\* The tokens pages are made of.
PageTokens ==
    { Open("main", "", ""), Open("body", "", ""), Open("div", "", ""),
      Open("h2", "", ""), Close("main"), Text("a"), Text(MsgLocate) }

\* What get_page_source_with_js (lines 8-23) can return: None when Playwright
\* raises, else the page's content.
FetchResults == {None} \cup { Str(s) : s \in SeqsUpTo(PageTokens, MaxPageLen) }

Idle == /\ callee = "none"
        /\ arg = None
        /\ ret = NoOutcome
        /\ first = NoOutcome

Init ==
    /\ pc = "fetch"
    /\ html_with_js = None
    /\ main_content_html = None
    /\ cleaned_html = None
    /\ markdown_content = None
    /\ scraped_data = None
    /\ calls = << >>
    /\ file = None
    /\ Idle

\* Lines 101-103.
Fetch ==
    /\ pc = "fetch"
    /\ \E r \in FetchResults :
          /\ html_with_js' = r
          /\ IF ~Truthy(r)
             THEN scraped_data' = Str(<< MsgFetch >>) /\ pc' = "save"
             ELSE scraped_data' = scraped_data /\ pc' = "locate"
    /\ calls' = Append(calls, "get_page_source_with_js")
    /\ UNCHANGED << main_content_html, cleaned_html, markdown_content, file >>
    /\ UNCHANGED callVars

LocateStageUnchecked ==
    /\ pc = "locate"
    /\ main_content_html' = extract_main_content(html_with_js)
    /\ scraped_data' = scraped_data
    /\ pc' = "clean"
    /\ calls' = Append(calls, "extract_main_content")
    /\ UNCHANGED << html_with_js, cleaned_html, markdown_content, file >>
    /\ UNCHANGED callVars

\* Lines 107-109.
LocateStage ==
    /\ pc = "locate"
    /\ main_content_html' = extract_main_content(html_with_js)
    /\ IF ~Truthy(main_content_html')
       THEN scraped_data' = Str(<< MsgLocate >>) /\ pc' = "save"
       ELSE scraped_data' = scraped_data /\ pc' = "clean"
    /\ calls' = Append(calls, "extract_main_content")
    /\ UNCHANGED << html_with_js, cleaned_html, markdown_content, file >>
    /\ UNCHANGED callVars

\* Line 113; an exception raised by clean_html is not caught and ends the script.
SanitizeStage ==
    /\ pc = "clean"
    /\ LET r == clean_html(main_content_html) IN
       IF r.raised # ""
       THEN cleaned_html' = cleaned_html /\ pc' = "crashed"
       ELSE cleaned_html' = r.value /\ pc' = "convert"
    /\ calls' = Append(calls, "clean_html")
    /\ UNCHANGED << html_with_js, main_content_html, markdown_content,
                    scraped_data, file >>
    /\ UNCHANGED callVars

\* Lines 117-119.
ConvertStage ==
    /\ pc = "convert"
    /\ markdown_content' = convert_to_markdown_with_details(cleaned_html).value
    /\ scraped_data' = markdown_content'
    /\ pc' = "save"
    /\ calls' = Append(calls, "convert_to_markdown_with_details")
    /\ UNCHANGED << html_with_js, main_content_html, cleaned_html, file >>
    /\ UNCHANGED callVars

SaveAlways ==
    /\ pc = "save"
    /\ file' = scraped_data
    /\ pc' = "exit"
    /\ UNCHANGED << html_with_js, main_content_html, cleaned_html,
                    markdown_content, scraped_data, calls >>
    /\ UNCHANGED callVars

\* Lines 126-131.
Save ==
    /\ pc = "save"
    /\ file' = IF Truthy(scraped_data) THEN scraped_data ELSE file
    /\ pc' = "exit"
    /\ UNCHANGED << html_with_js, main_content_html, cleaned_html,
                    markdown_content, scraped_data, calls >>
    /\ UNCHANGED callVars

Next == Fetch \/ LocateStage \/ SanitizeStage \/ ConvertStage \/ Save

Spec == Init /\ [][Next]_vars

(***************************************************************************)
(* The stage functions called directly, on arguments drawn from bounded    *)
(* sets of strings (and None).                                             *)
(***************************************************************************)
DocTokens ==
    { Open("main", "", ""), Open("article", "", ""), Open("div", "main", ""),
      Open("div", "", "main"), Open("div", "content", ""), Open("div", "", "content"),
      Open("div", "content", "main"), Open("body", "", ""), Open("div", "", ""),
      Close("div"), Close("main"), Text("a") }

FragTokens ==
    { Open("p", "", ""), Open("div", "", ""), Open("x-note", "", ""),
      Close("p"), Close("x-note"), Text("a") }

HtmlTokens ==
    { Open("h1", "", ""), Open("h2", "", ""), Open("h3", "", ""),
      Open("h4", "", ""), Open("h5", "", ""), Open("h6", "", ""),
      Open("b", "", ""), Open("p", "", ""), Close("h1"), Text("a") }

Arguments(f) ==
    CASE f = "extract_main_content" ->
            { Str(s) : s \in SeqsUpTo(DocTokens, MaxDocLen) }
      [] f = "clean_html" ->
            {None, Str(<< Blank >>)}
               \cup { Str(s) : s \in SeqsUpTo(FragTokens, MaxFragLen) }
      [] OTHER ->
            {None} \cup { Str(s) : s \in SeqsUpTo(HtmlTokens, MaxHtmlLen) }

StageFunctions ==
    {"extract_main_content", "clean_html", "convert_to_markdown_with_details"}

InitCalls ==
    /\ pc = "call"
    /\ html_with_js = None
    /\ main_content_html = None
    /\ cleaned_html = None
    /\ markdown_content = None
    /\ scraped_data = None
    /\ calls = << >>
    /\ file = None
    /\ callee \in StageFunctions
    /\ arg \in Arguments(callee)
    /\ ret = NoOutcome
    /\ first = NoOutcome

CallLocate ==
    /\ pc = "call"
    /\ callee = "extract_main_content"
    /\ ret' = Returned(extract_main_content(arg), TRUE)
    /\ pc' = "returned"
    /\ UNCHANGED << html_with_js, main_content_html, cleaned_html,
                    markdown_content, scraped_data, calls, file, callee, arg, first >>

CallClean ==
    /\ pc = "call"
    /\ callee = "clean_html"
    /\ ret' = clean_html(arg)
    /\ pc' = "returned"
    /\ UNCHANGED << html_with_js, main_content_html, cleaned_html,
                    markdown_content, scraped_data, calls, file, callee, arg, first >>

\* clean_html applied to its own result.
CallCleanAgain ==
    /\ pc = "returned"
    /\ callee = "clean_html"
    /\ ret.raised = ""
    /\ first' = ret
    /\ ret' = clean_html(ret.value)
    /\ pc' = "returned_twice"
    /\ UNCHANGED << html_with_js, main_content_html, cleaned_html,
                    markdown_content, scraped_data, calls, file, callee, arg >>

CallConvert ==
    /\ pc = "call"
    /\ callee = "convert_to_markdown_with_details"
    /\ ret' = convert_to_markdown_with_details(arg)
    /\ pc' = "returned"
    /\ UNCHANGED << html_with_js, main_content_html, cleaned_html,
                    markdown_content, scraped_data, calls, file, callee, arg, first >>

NextCalls == CallLocate \/ CallClean \/ CallCleanAgain \/ CallConvert

SpecCalls == InitCalls /\ [][NextCalls]_vars


(***************************************************************************)
(* Properties.                                                             *)
(***************************************************************************)
StageOrder ==
    << "get_page_source_with_js", "extract_main_content", "clean_html",
       "convert_to_markdown_with_details" >>

Invoked(f) == \E i \in 1..Len(calls) : calls[i] = f

FetchFailed == Invoked("get_page_source_with_js") /\ ~Truthy(html_with_js)

LocateFailed == Invoked("extract_main_content") /\ ~Truthy(main_content_html)

\* C1: in every run of scrape_robustly the stages are invoked at most once
\* each and only in the order fetch, locate, sanitize, convert; once fetch
\* returns nothing or the Locator returns None, no later stage is invoked,
\* the run has ended, and the converter has produced no Markdown.
C1_StagesLinearFailureTerminal ==
    /\ Len(calls) <= Len(StageOrder)
    /\ \A i \in 1..Len(calls) : calls[i] = StageOrder[i]
    /\ FetchFailed =>
          /\ calls = << "get_page_source_with_js" >>
          /\ pc \in {"save", "exit"}
          /\ markdown_content = None
    /\ LocateFailed =>
          /\ calls = << "get_page_source_with_js", "extract_main_content" >>
          /\ pc \in {"save", "exit"}
          /\ markdown_content = None

\* A run that ended after the Locator found nothing in a non-empty page.
C1_Witness ==
    /\ pc = "exit"
    /\ Truthy(html_with_js)
    /\ LocateFailed
    /\ calls = << "get_page_source_with_js", "extract_main_content" >>

\* C2: when the document handed to the pipeline is the empty string, the
\* Locator is asked and returns None, and the run returns the
\* could-not-identify-content outcome without invoking the Sanitizer or the
\* Transformer.
C2_EmptyDocumentIsNoContentFound ==
    (pc = "exit" /\ html_with_js = Str(<< >>)) =>
        /\ Invoked("extract_main_content")
        /\ scraped_data = Str(<< MsgLocate >>)
        /\ ~Invoked("clean_html")
        /\ ~Invoked("convert_to_markdown_with_details")

\* C3: clean_html given a non-empty fragment that cannot be parsed into a
\* DOM fails with a typed SanitizationError.
C3_UnparseableIsSanitizationError ==
    (/\ pc = "returned"
     /\ callee = "clean_html"
     /\ Truthy(arg)
     /\ DocumentIsEmpty(arg.s)) => ret.raised = "SanitizationError"

\* The selector priority the Locator is said to follow.
ClaimedOrder ==
    << [by |-> "tag", name |-> "main"],
       [by |-> "tag", name |-> "article"],
       [by |-> "class", name |-> "main"],
       [by |-> "id", name |-> "main"],
       [by |-> "class", name |-> "content"],
       [by |-> "id", name |-> "content"] >>

SomeMatch(soup, sel) == \E i \in 1..Len(soup) : Matches(soup[i], sel)

\* The first element in document order that a selector matches.
FirstMatch(soup, sel) ==
    CHOOSE i \in 1..Len(soup) :
        Matches(soup[i], sel) /\ \A j \in 1..(i - 1) : ~Matches(soup[j], sel)

LocatorReturned == pc = "returned" /\ callee = "extract_main_content"

\* C4: the Locator returns the element matched by the first selector, in the
\* order main, article, .main, #main, .content, #content, that matches
\* anything, and for that selector the first match in document order; a
\* document with a <main> element yields its first <main> element, whatever
\* class- or id-matching elements it also contains.
C4_FirstSelectorFirstElement ==
    LocatorReturned =>
        LET soup == BeautifulSoup(arg.s) IN
        /\ \A k \in 1..Len(ClaimedOrder) :
              (/\ SomeMatch(soup, ClaimedOrder[k])
               /\ \A j \in 1..(k - 1) : ~SomeMatch(soup, ClaimedOrder[j]))
                 => ret.value = Str(Subtree(soup, FirstMatch(soup, ClaimedOrder[k])))
        /\ SomeMatch(soup, [by |-> "tag", name |-> "main"])
              => ret.value = Str(Subtree(soup,
                                 FirstMatch(soup, [by |-> "tag", name |-> "main"])))

\* A <main> element returned from a document in which an element of class
\* content comes before it.
C4_Witness ==
    /\ LocatorReturned
    /\ LET soup == BeautifulSoup(arg.s) IN
       \E i, j \in 1..Len(soup) :
          /\ i < j
          /\ Matches(soup[i], [by |-> "class", name |-> "content"])
          /\ soup[j].k = "open" /\ soup[j].tag = "main"
          /\ ret.value = Str(Subtree(soup, j))

HasBody(soup) == \E i \in 1..Len(soup) : soup[i].k = "open" /\ soup[i].tag = "body"

AnyRuleMatches(soup) == \E k \in 1..Len(ClaimedOrder) : SomeMatch(soup, ClaimedOrder[k])

\* C5: when no selector matches, the Locator returns the document's first
\* <body> element if there is one; it returns None exactly when no selector
\* matches and there is no <body>; when some selector matches, the result
\* is an element a selector matches, not the body fallback.
C5_BodyFallback ==
    LocatorReturned =>
        LET soup == BeautifulSoup(arg.s) IN
        /\ (~AnyRuleMatches(soup) /\ HasBody(soup))
              => ret.value = Str(Subtree(soup,
                                 FirstMatch(soup, [by |-> "tag", name |-> "body"])))
        /\ ret.value = None <=> (~AnyRuleMatches(soup) /\ ~HasBody(soup))
        /\ AnyRuleMatches(soup)
              => \E i \in 1..Len(soup), k \in 1..Len(ClaimedOrder) :
                    /\ Matches(soup[i], ClaimedOrder[k])
                    /\ ret.value = Str(Subtree(soup, i))

\* The body returned from a document with content that no selector matches.
C5_Witness ==
    /\ LocatorReturned
    /\ LET soup == BeautifulSoup(arg.s) IN
       /\ ~AnyRuleMatches(soup)
       /\ HasBody(soup)
       /\ Len(soup) > 2
       /\ ret.value = Str(Subtree(soup, FirstMatch(soup, [by |-> "tag", name |-> "body"])))

ErrorOutcomes == { Str(<< MsgFetch >>), Str(<< MsgLocate >>) }

\* C6: every failing run yields an error outcome naming the stage that
\* failed, different for fetch and for locate, and no run that produced
\* Markdown yields a value that is one of the error outcomes.
C6_ErrorsNameStageAndDifferFromMarkdown ==
    pc = "exit" =>
        /\ FetchFailed => scraped_data = Str(<< MsgFetch >>)
        /\ LocateFailed => scraped_data = Str(<< MsgLocate >>)
        /\ MsgFetch # MsgLocate
        /\ Invoked("convert_to_markdown_with_details") => scraped_data \notin ErrorOutcomes

\* C7: clean_html and convert_to_markdown_with_details return the empty
\* string for an empty or None input, raise nothing, and do not invoke the
\* parser or the converter.
C7_EmptyInEmptyOut ==
    /\ (/\ pc = "returned"
        /\ callee \in {"clean_html", "convert_to_markdown_with_details"}
        /\ ~Truthy(arg)) => ret = Returned(Str(<< >>), FALSE)
    /\ (pc = "returned_twice" /\ ~Truthy(first.value))
          => ret = Returned(Str(<< >>), FALSE)

\* clean_html has returned from a call with None.
C7_Witness ==
    /\ pc = "returned"
    /\ callee = "clean_html"
    /\ arg = None
    /\ ret.value = Str(<< >>)

LineStart(md, i) == i = 1 \/ md[i - 1] \in {BR, NL}

\* C8: for each level n in 1..6, the Transformer emits for an <hn> element
\* with text a line that begins with exactly n+1 '#' characters.
C8_HeadingShiftedByOne ==
    (/\ pc = "returned"
     /\ callee = "convert_to_markdown_with_details"
     /\ Truthy(arg)) =>
        LET soup == BeautifulSoup(arg.s)
            md == ret.value.s
        IN  \A n \in 1..6 :
               (/\ Len(soup) >= 3
                /\ soup[1] = Open(HeadingTags[n], "", "")
                /\ soup[2].k = "text")
                  => \E i \in 1..Len(md) : md[i] = Hashes(n + 1) /\ LineStart(md, i)

\* C9: clean_html(clean_html(x)) equals clean_html(x) for every fragment x
\* that clean_html parses successfully.
C9_SanitizerIdempotent ==
    (pc = "returned_twice" /\ first.invoked) => ret.value = first.value

\* C10: the script writes robust_scraped_content.md exactly when
\* scrape_robustly returned a non-empty string, with that string as content:
\* the failure message when fetch or locate failed, and nothing when the
\* pipeline completed with empty Markdown.
C10_FileWrittenIffNonEmpty ==
    /\ pc # "exit" => file = None
    /\ pc = "exit" =>
          /\ file # None <=> Truthy(scraped_data)
          /\ file # None => file = scraped_data
          /\ FetchFailed => file = Str(<< MsgFetch >>)
          /\ LocateFailed => file = Str(<< MsgLocate >>)
          /\ (/\ Invoked("convert_to_markdown_with_details")
              /\ markdown_content = Str(<< >>)) => file = None

\* The pipeline completed with empty Markdown and no file was written.
C10_Witness ==
    /\ pc = "exit"
    /\ Invoked("convert_to_markdown_with_details")
    /\ markdown_content = Str(<< >>)
    /\ file = None

=============================================================================
